---- MODULE Spec2Model ----
(***************************************************************************)
(* Travel-expense workflow (agents/graph_workflow.py) as a state machine.  *)
(*                                                                         *)
(* The graph is a LangGraph StateGraph compiled by build_app and run by    *)
(* run_workflow.  It executes in supersteps: all nodes triggered for a     *)
(* superstep read the same snapshot of the shared state, their returned    *)
(* updates are merged when the superstep ends, and every node that ran     *)
(* triggers the targets of its outgoing edges for the next superstep.  A   *)
(* node with several incoming single edges is triggered by each of them.   *)
(*                                                                         *)
(* Python values: a dict is a function whose DOMAIN is its key set, an     *)
(* Optional value is None (<<>>) or Some(v) (<<v>>), money is in cents, a  *)
(* date is a day ordinal, and a time-period string is the list of the      *)
(* YYYY-MM-DD matches it contains, a match that is no calendar date (such  *)
(* as 2024-02-30) being 0.                                                 *)
(***************************************************************************)
EXTENDS Integers, Sequences, FiniteSets, TLC

VARIABLES
    state,      \* the GraphState channels: a dict from field name to value
    todo,       \* nodes triggered for the current superstep, not yet run
    ran,        \* nodes that ran in the current superstep -> update, calls
    status,     \* "running", "done" (app.invoke returned), "failed" (raised)
    raisedBy,   \* the node whose body raised, "none" otherwise
    execCount,  \* how often each node function has been called
    merged,     \* nodes whose update has been merged into the state
    writers,    \* for every field, the nodes whose merged updates wrote it
    putLog,     \* the PUT /travelTicket requests issued so far
    edges,      \* the edges of the compiled graph
    call,       \* a backend tool called on its own: function and arguments
    ret         \* what that call returned, None while it has not

vars == <<state, todo, ran, status, raisedBy, execCount, merged, writers,
          putLog, edges, call, ret>>

-----------------------------------------------------------------------------
(* Bounds of the model *)

MaxDay == 2         \* dates are day ordinals 1..MaxDay
MaxInvoices == 2    \* an extraction holds at most this many invoices
MaxDate == 3        \* the checks are called on day ordinals up to this one
MaxMatches == 3     \* and on period strings with at most this many matches
MaxCents == 3       \* and on amounts of at most this many cents
MaxArgs == 2        \* the command line holds at most this many arguments

-----------------------------------------------------------------------------
(* Python values *)

None == <<>>
Some(x) == <<x>>
IsNone(o) == o = <<>>
Val(o) == o[1]

EmptyDict == [k \in {} |-> TRUE]
Has(d, k) == k \in DOMAIN d

\* the update replaces the dict instead of being merged into it
Merge_replace(d, u) == u

\* dict merge: the keys of u replace those of d
Merge(d, u) == u @@ d

Abs(i) == IF i < 0 THEN -i ELSE i

RECURSIVE SumAmounts(_)
SumAmounts(invs) ==
    IF invs = <<>> THEN 0 ELSE Head(invs).amount + SumAmounts(Tail(invs))

-----------------------------------------------------------------------------
(* tools/checks.py *)

toleranz == 1       \* 0.01, in cents

check_total(invoices_extraction, summary_extraction) ==
    LET invoice_sum == SumAmounts(invoices_extraction.invoices)
        total == summary_extraction.total
    IN  Abs(invoice_sum - total) <= toleranz

\* date.fromisoformat accepts the match: 0 stands for a match that is no
\* calendar date
IsCalendarDate(m) == m >= 1

\* the two dates are returned in the order they were written
_extract_dates_no_swap(period_str) ==
    IF IsNone(period_str) \/ Val(period_str) = <<>>
    THEN <<None, None>>
    ELSE LET matches == Val(period_str) IN
         IF Len(matches) < 2
         THEN <<None, None>>
         ELSE LET start == matches[1]
                  end == matches[2]
              IN  IF ~IsCalendarDate(start) \/ ~IsCalendarDate(end)
                  THEN <<None, None>>
                  ELSE <<Some(start), Some(end)>>

\* a match that is no calendar date is taken as a date
_extract_dates_unchecked(period_str) ==
    IF IsNone(period_str) \/ Val(period_str) = <<>>
    THEN <<None, None>>
    ELSE LET matches == Val(period_str) IN
         IF Len(matches) < 2
         THEN <<None, None>>
         ELSE LET start == matches[1]
                  end == matches[2]
              IN  IF end < start
                  THEN <<Some(end), Some(start)>>
                  ELSE <<Some(start), Some(end)>>

\* period_str is None or Some(list of the date matches of the string)
_extract_dates(period_str) ==
    IF IsNone(period_str) \/ Val(period_str) = <<>>
    THEN <<None, None>>
    ELSE LET matches == Val(period_str) IN
         IF Len(matches) < 2
         THEN <<None, None>>
         ELSE LET start == matches[1]
                  end == matches[2]
              IN  IF ~IsCalendarDate(start) \/ ~IsCalendarDate(end)
                  THEN <<None, None>>
                  ELSE IF end < start
                  THEN <<Some(end), Some(start)>>
                  ELSE <<Some(start), Some(end)>>

\* the day count leaves the end date out
_length_in_days_exclusive(start, end) ==
    IF IsNone(start) \/ IsNone(end)
    THEN None
    ELSE Some(Val(end) - Val(start))

_length_in_days(start, end) ==
    IF IsNone(start) \/ IsNone(end)
    THEN None
    ELSE Some((Val(end) - Val(start)) + 1)

\* Python's (x or 0) for an Optional[int]
OrZero(o) == IF IsNone(o) \/ Val(o) = 0 THEN 0 ELSE Val(o)

\* periods_match compares the start dates only
compare_time_periods_with_llm_start_only(header_time_period, summary_time_period) ==
    LET h == _extract_dates(header_time_period)
        s == _extract_dates(summary_time_period)
        h_days == _length_in_days(h[1], h[2])
        s_days == _length_in_days(s[1], s[2])
        periods_match == /\ ~IsNone(h[1])
                         /\ ~IsNone(s[1])
                         /\ h[1] = s[1]
    IN  IF IsNone(h_days) /\ IsNone(s_days)
        THEN [periods_match |-> FALSE, trip_days |-> None]
        ELSE [periods_match |-> periods_match,
              trip_days |-> IF OrZero(s_days) > OrZero(h_days)
                            THEN s_days ELSE h_days]

\* trip_days is always the length of the summary period
compare_time_periods_with_llm_summary_days(header_time_period, summary_time_period) ==
    LET h == _extract_dates(header_time_period)
        s == _extract_dates(summary_time_period)
        h_days == _length_in_days(h[1], h[2])
        s_days == _length_in_days(s[1], s[2])
        periods_match == /\ ~IsNone(h[1])
                         /\ ~IsNone(s[1])
                         /\ h[1] = s[1]
                         /\ h[2] = s[2]
    IN  IF IsNone(h_days) /\ IsNone(s_days)
        THEN [periods_match |-> FALSE, trip_days |-> None]
        ELSE [periods_match |-> periods_match, trip_days |-> s_days]

\* the summary period is taken whenever it is valid
compare_time_periods_with_llm_prefer_summary(header_time_period, summary_time_period) ==
    LET h == _extract_dates(header_time_period)
        s == _extract_dates(summary_time_period)
        h_days == _length_in_days(h[1], h[2])
        s_days == _length_in_days(s[1], s[2])
        periods_match == /\ ~IsNone(h[1])
                         /\ ~IsNone(s[1])
                         /\ h[1] = s[1]
                         /\ h[2] = s[2]
    IN  IF IsNone(h_days) /\ IsNone(s_days)
        THEN [periods_match |-> FALSE, trip_days |-> None]
        ELSE [periods_match |-> periods_match,
              trip_days |-> IF ~IsNone(s_days) THEN s_days ELSE h_days]

compare_time_periods_with_llm(header_time_period, summary_time_period) ==
    LET h == _extract_dates(header_time_period)
        s == _extract_dates(summary_time_period)
        h_days == _length_in_days(h[1], h[2])
        s_days == _length_in_days(s[1], s[2])
        periods_match == /\ ~IsNone(h[1])
                         /\ ~IsNone(s[1])
                         /\ h[1] = s[1]
                         /\ h[2] = s[2]
    IN  IF IsNone(h_days) /\ IsNone(s_days)
        THEN [periods_match |-> FALSE, trip_days |-> None]
        ELSE [periods_match |-> periods_match,
              trip_days |-> IF OrZero(s_days) > OrZero(h_days)
                            THEN s_days ELSE h_days]

\* the fallback result always has days = 0
calculate_allowance_zero_days(date_comparsion, daily_rate, extracted_allowance) ==
    IF \/ IsNone(date_comparsion.trip_days)
       \/ IsNone(daily_rate)
       \/ IsNone(extracted_allowance)
    THEN [days |-> 0,
          expected_allowance |-> 0,
          matches_summary |-> FALSE]
    ELSE LET days == Val(date_comparsion.trip_days)
             expected_allowance == Val(daily_rate) * days
         IN  [days |-> days,
              expected_allowance |-> expected_allowance,
              matches_summary |->
                  Abs(expected_allowance - Val(extracted_allowance)) <= 1]

\* the difference has to be below the tolerance
calculate_allowance_strict(date_comparsion, daily_rate, extracted_allowance) ==
    IF \/ IsNone(date_comparsion.trip_days)
       \/ IsNone(daily_rate)
       \/ IsNone(extracted_allowance)
    THEN [days |-> OrZero(date_comparsion.trip_days),
          expected_allowance |-> 0,
          matches_summary |-> FALSE]
    ELSE LET days == Val(date_comparsion.trip_days)
             expected_allowance == Val(daily_rate) * days
         IN  [days |-> days,
              expected_allowance |-> expected_allowance,
              matches_summary |->
                  Abs(expected_allowance - Val(extracted_allowance)) < 1]

calculate_allowance(date_comparsion, daily_rate, extracted_allowance) ==
    IF \/ IsNone(date_comparsion.trip_days)
       \/ IsNone(daily_rate)
       \/ IsNone(extracted_allowance)
    THEN [days |-> OrZero(date_comparsion.trip_days),
          expected_allowance |-> 0,
          matches_summary |-> FALSE]
    ELSE LET days == Val(date_comparsion.trip_days)
             expected_allowance == Val(daily_rate) * days
         IN  [days |-> days,
              expected_allowance |-> expected_allowance,
              matches_summary |->
                  Abs(expected_allowance - Val(extracted_allowance)) <= 1]

-----------------------------------------------------------------------------
(* main.py: check_total of the standalone pipeline.  It takes the dumped   *)
(* expense report, whose amounts and total are Optional here: None stands  *)
(* for a value float() rejects.                                            *)

\* the loop over the invoices: an amount float() rejects is skipped
RECURSIVE SumNumericAmounts(_)
SumNumericAmounts(invoices) ==
    IF invoices = <<>>
    THEN 0
    ELSE (IF IsNone(Head(invoices).amount)
          THEN 0 ELSE Val(Head(invoices).amount))
         + SumNumericAmounts(Tail(invoices))

main_check_total(expense_report_dict) ==
    LET invoice_sum == SumNumericAmounts(expense_report_dict.invoices)
        total == IF IsNone(expense_report_dict.summary.total)
                 THEN 0 ELSE Val(expense_report_dict.summary.total)
    IN  Abs(invoice_sum - total) < toleranz

-----------------------------------------------------------------------------
(* tools/backend_tools.py *)

\* what the backend can answer to a request (_backend_request and resp.json)
GetAnswers == {"transport_error", "200_json", "200_null", "200_unparsable",
               "404", "500"}
PutAnswers == {"transport_error", "200", "204", "500"}

\* GET /allowances can also answer with JSON that is no mapping of numbers:
\* a value float() rejects, or a list, which has no items()
AllowanceAnswers == GetAnswers \cup {"200_nonnumeric", "200_list"}

TicketIds == {"", "992211"}

\* the record the backend stores for a ticket
TicketRecord(id) == [ticketID |-> id, ticketStatus |-> "OPEN", comment |-> ""]

Rates == [Berlin |-> 5000]

PyStr(v) == [type |-> "str", value |-> v]
PyDict(d) == [type |-> "dict", value |-> d]

\* the status code is not looked at: the body of an error answer is parsed
get_allowances_no_status_check(answer) ==
    IF answer \in {"200_json", "404", "500"} THEN Rates ELSE EmptyDict

get_allowances(answer) ==
    IF answer = "200_json" THEN Rates ELSE EmptyDict

\* expense_report.get("ticket_id") needs a dict: a str argument raises
\* AttributeError before any request is made
check_ticket_exists(expense_report, answer) ==
    IF expense_report.type # "dict"
    THEN [raised |-> TRUE, called |-> FALSE, exists |-> FALSE,
          ticket_data |-> None]
    ELSE LET d == expense_report.value
             ticket_id == IF Has(d, "ticket_id") THEN d.ticket_id ELSE None
         IN  IF IsNone(ticket_id) \/ Val(ticket_id) = ""
             THEN [raised |-> FALSE, called |-> FALSE, exists |-> FALSE,
                   ticket_data |-> None]
             ELSE CASE answer = "200_json" ->
                         [raised |-> FALSE, called |-> TRUE, exists |-> TRUE,
                          ticket_data |-> Some(TicketRecord(Val(ticket_id)))]
                    [] answer = "200_null" ->
                         [raised |-> FALSE, called |-> TRUE, exists |-> TRUE,
                          ticket_data |-> None]
                    [] OTHER ->
                         [raised |-> FALSE, called |-> TRUE, exists |-> FALSE,
                          ticket_data |-> None]

\* the two status values are exchanged
update_ticket_status_swapped(ticket_id, decision, ticket_data, answer) ==
    IF IsNone(ticket_id) \/ Val(ticket_id) = ""
    THEN [raised |-> FALSE, put |-> None, ticket_data |-> ticket_data]
    ELSE IF IsNone(ticket_data)
    THEN [raised |-> TRUE, put |-> None, ticket_data |-> ticket_data]
    ELSE LET body == [Val(ticket_data) EXCEPT
                         !.ticketStatus = IF decision.approve
                                          THEN "REJECTED" ELSE "APPROVED",
                         !.comment = decision.comment]
         IN  [raised |-> FALSE, put |-> Some(body), ticket_data |-> Some(body)]

\* a ticket that has been decided is not written again
update_ticket_status_once_only(ticket_id, decision, ticket_data, answer) ==
    IF IsNone(ticket_id) \/ Val(ticket_id) = ""
    THEN [raised |-> FALSE, put |-> None, ticket_data |-> ticket_data]
    ELSE IF IsNone(ticket_data)
    THEN [raised |-> TRUE, put |-> None, ticket_data |-> ticket_data]
    ELSE IF Val(ticket_data).ticketStatus # "OPEN"
    THEN [raised |-> FALSE, put |-> None, ticket_data |-> ticket_data]
    ELSE LET body == [Val(ticket_data) EXCEPT
                         !.ticketStatus = IF decision.approve
                                          THEN "APPROVED" ELSE "REJECTED",
                         !.comment = decision.comment]
         IN  [raised |-> FALSE, put |-> Some(body), ticket_data |-> Some(body)]

\* ticket_data is changed in place, so the caller sees the changed record
update_ticket_status(ticket_id, decision, ticket_data, answer) ==
    IF IsNone(ticket_id) \/ Val(ticket_id) = ""
    THEN [raised |-> FALSE, put |-> None, ticket_data |-> ticket_data]
    ELSE IF IsNone(ticket_data)
    THEN [raised |-> TRUE, put |-> None, ticket_data |-> ticket_data]
    ELSE LET body == [Val(ticket_data) EXCEPT
                         !.ticketStatus = IF decision.approve
                                          THEN "APPROVED" ELSE "REJECTED",
                         !.comment = decision.comment]
         IN  [raised |-> FALSE, put |-> Some(body), ticket_data |-> Some(body)]

-----------------------------------------------------------------------------
(* Answers of the PDF reader and of the LLM (tools/pdf_tools.py,            *)
(* tools/llm_tools.py): opaque collaborators, any value of the result type *)

Sections == [header |-> "header text", invoices |-> "invoices text",
             summary |-> "summary text"]

Days == 1..MaxDay
PeriodStrs == {None, Some(<<>>)} \cup {Some(<<a, b>>) : a, b \in Days}

HeaderExtractions ==
    [destination : {Some("Berlin")},
     time_period_header : PeriodStrs,
     ticket_id : {None} \cup {Some(t) : t \in TicketIds}]

InvoiceLists ==
    UNION {[1..n -> {[amount |-> 100]}] : n \in 0..MaxInvoices}
InvoicesExtractions == [invoices : InvoiceLists]

SummaryExtractions ==
    [total : {100, 200}, allowance : {5000, 10000},
     time_period_summary : PeriodStrs]

RateSelections ==
    {[matched_city |-> None, daily_rate |-> None],
     [matched_city |-> Some("Berlin"), daily_rate |-> Some(5000)]}

ApprovalDecisions == [approve : BOOLEAN, comment : {"comment"}]

-----------------------------------------------------------------------------
(* agents/graph_workflow.py: the node functions.  Each takes the state it  *)
(* reads and the collaborators' answers, and gives the update it returns,  *)
(* the collaborators it called, whether it raised, and the PUT it issued.  *)

Result(update, calls) ==
    [update |-> update, calls |-> calls, raised |-> FALSE, put |-> None]
Raised(calls) ==
    [update |-> EmptyDict, calls |-> calls, raised |-> TRUE, put |-> None]

extract_pdf_node(s, sections) ==
    IF ~Has(s, "pdf_path")
    THEN Result(EmptyDict, {})
    ELSE Result([pdf_sections |-> sections], {"pdf_reader"})

extract_data_node(s, header, invoices, summary) ==
    IF ~Has(s, "pdf_sections")
    THEN Result(EmptyDict, {})
    ELSE Result([header_extraction |-> header,
                 invoices_extraction |-> invoices,
                 summary_extraction |-> summary], {"llm"})

get_allowances_node(s, answer) ==
    Result([allowances |-> get_allowances(answer)], {"backend"})

\* the short-circuit branch writes ticket_exists only
check_ticket_exists_node_half(s, answer) ==
    LET ticket_id == IF Has(s, "header_extraction")
                     THEN s.header_extraction.ticket_id ELSE None
    IN  IF IsNone(ticket_id) \/ Val(ticket_id) = ""
        THEN Result([ticket_exists |-> FALSE], {})
        ELSE LET r == check_ticket_exists(PyStr(Val(ticket_id)), answer)
                 calls == IF r.called THEN {"backend"} ELSE {}
             IN  IF r.raised
                 THEN Raised(calls)
                 ELSE Result([ticket_exists |-> r.exists,
                              ticket_data |-> r.ticket_data], calls)

\* the guard tests ticket_id against None only
check_ticket_exists_node_none_only(s, answer) ==
    LET ticket_id == IF Has(s, "header_extraction")
                     THEN s.header_extraction.ticket_id ELSE None
    IN  IF IsNone(ticket_id)
        THEN Result([ticket_exists |-> FALSE, ticket_data |-> None], {})
        ELSE LET r == check_ticket_exists(PyStr(Val(ticket_id)), answer)
                 calls == IF r.called THEN {"backend"} ELSE {}
             IN  IF r.raised
                 THEN Raised(calls)
                 ELSE Result([ticket_exists |-> r.exists,
                              ticket_data |-> r.ticket_data], calls)

check_ticket_exists_node(s, answer) ==
    LET ticket_id == IF Has(s, "header_extraction")
                     THEN s.header_extraction.ticket_id ELSE None
    IN  IF IsNone(ticket_id) \/ Val(ticket_id) = ""
        THEN Result([ticket_exists |-> FALSE, ticket_data |-> None], {})
        ELSE LET r == check_ticket_exists(PyStr(Val(ticket_id)), answer)
                 calls == IF r.called THEN {"backend"} ELSE {}
             IN  IF r.raised
                 THEN Raised(calls)
                 ELSE Result([ticket_exists |-> r.exists,
                              ticket_data |-> r.ticket_data], calls)

check_total_node(s) ==
    IF ~Has(s, "invoices_extraction") \/ ~Has(s, "summary_extraction")
    THEN Result(EmptyDict, {})
    ELSE Result([total_ok |-> check_total(s.invoices_extraction,
                                          s.summary_extraction)], {})

select_daily_rate_node(s, selection) ==
    IF ~Has(s, "header_extraction") \/ ~Has(s, "allowances")
    THEN Result(EmptyDict, {})
    ELSE Result([rate_selection |-> selection], {"llm"})

compare_dates_node(s) ==
    IF ~Has(s, "header_extraction") \/ ~Has(s, "summary_extraction")
    THEN Result(EmptyDict, {})
    ELSE Result([date_comparsion |->
                    compare_time_periods_with_llm(
                        s.header_extraction.time_period_header,
                        s.summary_extraction.time_period_summary)], {})

\* on a failed guard the state is returned with an empty date_comparsion
allowance_check_node_defaults(s) ==
    IF \/ ~Has(s, "date_comparsion")
       \/ ~Has(s, "rate_selection")
       \/ ~Has(s, "summary_extraction")
    THEN Result(Merge(s, [date_comparsion |->
                             [periods_match |-> FALSE, trip_days |-> None]]),
                {})
    ELSE Result([allowance_calculation |->
                    calculate_allowance(s.date_comparsion,
                                        s.rate_selection.daily_rate,
                                        Some(s.summary_extraction.allowance))],
                {})

allowance_check_node(s) ==
    IF \/ ~Has(s, "date_comparsion")
       \/ ~Has(s, "rate_selection")
       \/ ~Has(s, "summary_extraction")
    THEN Result(s, {})
    ELSE Result([allowance_calculation |->
                    calculate_allowance(s.date_comparsion,
                                        s.rate_selection.daily_rate,
                                        Some(s.summary_extraction.allowance))],
                {})

\* the decision is asked for whatever the state holds
approval_decision_node_unguarded(s, decision) ==
    Result([approval_decision |-> decision], {"llm"})

approval_decision_node(s, decision) ==
    IF \/ ~Has(s, "total_ok")
       \/ ~Has(s, "ticket_exists")
       \/ ~Has(s, "allowance_calculation")
       \/ ~Has(s, "date_comparsion")
    THEN Result(s, {})
    ELSE Result([approval_decision |-> decision], {"llm"})

\* the guard tests ticket_id only and the request is sent at once
update_ticket_status_node_unguarded(s, answer) ==
    LET ticket_id == IF Has(s, "header_extraction")
                     THEN s.header_extraction.ticket_id ELSE None
    IN  IF IsNone(ticket_id)
        THEN Result(s, {})
        ELSE [update |-> s, calls |-> {"backend"}, raised |-> FALSE,
              put |-> Some(TicketRecord(Val(ticket_id)))]

\* the guard does not test ticket_data
update_ticket_status_node_no_data_guard(s, answer) ==
    LET ticket_data == IF Has(s, "ticket_data") THEN s.ticket_data ELSE None
        ticket_id == IF Has(s, "header_extraction")
                     THEN s.header_extraction.ticket_id ELSE None
    IN  IF \/ IsNone(ticket_id)
           \/ ~Has(s, "approval_decision")
        THEN Result(s, {})
        ELSE LET r == update_ticket_status(ticket_id, s.approval_decision,
                                           ticket_data, answer)
                 calls == IF IsNone(r.put) THEN {} ELSE {"backend"}
             IN  IF r.raised
                 THEN Raised(calls)
                 ELSE [update |-> IF Has(s, "ticket_data")
                                  THEN [s EXCEPT !.ticket_data = r.ticket_data]
                                  ELSE s,
                       calls |-> calls, raised |-> FALSE, put |-> r.put]

\* a ticket without a fetched record is written as a new record
update_ticket_status_node_creates_record(s, answer) ==
    LET ticket_data == IF Has(s, "ticket_data") THEN s.ticket_data ELSE None
        ticket_id == IF Has(s, "header_extraction")
                     THEN s.header_extraction.ticket_id ELSE None
    IN  IF \/ IsNone(ticket_id)
           \/ ~Has(s, "approval_decision")
        THEN Result(s, {})
        ELSE IF IsNone(ticket_data)
        THEN [update |-> s, calls |-> {"backend"}, raised |-> FALSE,
              put |-> Some(TicketRecord(Val(ticket_id)))]
        ELSE LET r == update_ticket_status(ticket_id, s.approval_decision,
                                           ticket_data, answer)
                 calls == IF IsNone(r.put) THEN {} ELSE {"backend"}
             IN  IF r.raised
                 THEN Raised(calls)
                 ELSE [update |-> [s EXCEPT !.ticket_data = r.ticket_data],
                       calls |-> calls, raised |-> FALSE, put |-> r.put]

update_ticket_status_node(s, answer) ==
    LET ticket_data == IF Has(s, "ticket_data") THEN s.ticket_data ELSE None
        ticket_id == IF Has(s, "header_extraction")
                     THEN s.header_extraction.ticket_id ELSE None
    IN  IF \/ IsNone(ticket_id)
           \/ ~Has(s, "approval_decision")
           \/ IsNone(ticket_data)
        THEN Result(s, {})
        ELSE LET r == update_ticket_status(ticket_id, s.approval_decision,
                                           ticket_data, answer)
                 calls == IF IsNone(r.put) THEN {} ELSE {"backend"}
             IN  IF r.raised
                 THEN Raised(calls)
                 ELSE [update |-> [s EXCEPT !.ticket_data = r.ticket_data],
                       calls |-> calls, raised |-> FALSE, put |-> r.put]

-----------------------------------------------------------------------------
(* agents/graph_workflow.py: build_app and run_workflow *)

Nodes == {"extract_pdf", "extract_data", "get_allowances",
          "check_ticket_exists", "check_total", "select_daily_rate",
          "compare_dates", "allowance_check", "approval_decision",
          "update_ticket_status"}

Fields == {"pdf_path", "pdf_sections", "header_extraction",
           "invoices_extraction", "summary_extraction", "allowances",
           "total_ok", "ticket_exists", "allowance_calculation",
           "ticket_data", "rate_selection", "date_comparsion",
           "approval_decision"}

\* compare_dates is not connected to allowance_check
Edges_no_join == {<<"START", "extract_pdf">>,
                  <<"START", "get_allowances">>,
                  <<"extract_pdf", "extract_data">>,
                  <<"extract_data", "check_ticket_exists">>,
                  <<"extract_data", "check_total">>,
                  <<"extract_data", "select_daily_rate">>,
                  <<"extract_data", "compare_dates">>,
                  <<"get_allowances", "select_daily_rate">>,
                  <<"select_daily_rate", "allowance_check">>,
                  <<"check_ticket_exists", "approval_decision">>,
                  <<"check_total", "approval_decision">>,
                  <<"allowance_check", "approval_decision">>,
                  <<"approval_decision", "update_ticket_status">>,
                  <<"update_ticket_status", "END">>}

Edges == {<<"START", "extract_pdf">>,
          <<"START", "get_allowances">>,
          <<"extract_pdf", "extract_data">>,
          <<"extract_data", "check_ticket_exists">>,
          <<"extract_data", "check_total">>,
          <<"extract_data", "select_daily_rate">>,
          <<"extract_data", "compare_dates">>,
          <<"get_allowances", "select_daily_rate">>,
          <<"compare_dates", "allowance_check">>,
          <<"select_daily_rate", "allowance_check">>,
          <<"check_ticket_exists", "approval_decision">>,
          <<"check_total", "approval_decision">>,
          <<"allowance_check", "approval_decision">>,
          <<"approval_decision", "update_ticket_status">>,
          <<"update_ticket_status", "END">>}

\* the nodes triggered by the completion of the nodes in done
Triggered(graph, done) ==
    {m \in Nodes : \E n \in done : <<n, m>> \in graph}

initial_state == [pdf_path |-> "report.pdf"]

Init ==
    /\ state = initial_state
    /\ edges = Edges
    /\ todo = Triggered(Edges, {"START"})
    /\ ran = EmptyDict
    /\ status = "running"
    /\ raisedBy = "none"
    /\ execCount = [n \in Nodes |-> 0]
    /\ merged = {}
    /\ writers = [f \in Fields |-> IF f = "pdf_path" THEN {"START"} ELSE {}]
    /\ putLog = <<>>
    /\ call = None
    /\ ret = None

\* the update of a node is merged at once, so that the nodes that run later
\* in the same superstep read it
RunNode_unisolated(n, r) ==
    /\ status = "running"
    /\ n \in todo
    /\ execCount' = [execCount EXCEPT ![n] = @ + 1]
    /\ IF r.raised
       THEN /\ status' = "failed"
            /\ raisedBy' = n
            /\ UNCHANGED <<todo, ran, state>>
       ELSE /\ todo' = todo \ {n}
            /\ ran' = (n :> [update |-> r.update, calls |-> r.calls]) @@ ran
            /\ state' = Merge(state, r.update)
            /\ UNCHANGED <<status, raisedBy>>
    /\ putLog' = IF IsNone(r.put)
                 THEN putLog
                 ELSE Append(putLog, [node |-> n, body |-> Val(r.put),
                                      read |-> state])
    /\ UNCHANGED <<merged, writers, edges, call, ret>>

\* one call of the node function of n with result r, in the current superstep
RunNode(n, r) ==
    /\ status = "running"
    /\ n \in todo
    /\ execCount' = [execCount EXCEPT ![n] = @ + 1]
    /\ IF r.raised
       THEN /\ status' = "failed"
            /\ raisedBy' = n
            /\ UNCHANGED <<todo, ran>>
       ELSE /\ todo' = todo \ {n}
            /\ ran' = (n :> [update |-> r.update, calls |-> r.calls]) @@ ran
            /\ UNCHANGED <<status, raisedBy>>
    /\ putLog' = IF IsNone(r.put)
                 THEN putLog
                 ELSE Append(putLog, [node |-> n, body |-> Val(r.put),
                                      read |-> state])
    /\ UNCHANGED <<state, merged, writers, edges, call, ret>>

step_extract_pdf ==
    /\ "extract_pdf" \in todo
    /\ RunNode("extract_pdf", extract_pdf_node(state, Sections))

step_extract_data ==
    \E header \in HeaderExtractions, invoices \in InvoicesExtractions,
       summary \in SummaryExtractions :
        /\ "extract_data" \in todo
        /\ RunNode("extract_data",
                   extract_data_node(state, header, invoices, summary))

step_get_allowances ==
    \E answer \in AllowanceAnswers :
        /\ "get_allowances" \in todo
        /\ RunNode("get_allowances", get_allowances_node(state, answer))

step_check_ticket_exists ==
    \E answer \in GetAnswers :
        /\ "check_ticket_exists" \in todo
        /\ RunNode("check_ticket_exists",
                   check_ticket_exists_node(state, answer))

step_check_total ==
    /\ "check_total" \in todo
    /\ RunNode("check_total", check_total_node(state))

step_select_daily_rate ==
    \E selection \in RateSelections :
        /\ "select_daily_rate" \in todo
        /\ RunNode("select_daily_rate",
                   select_daily_rate_node(state, selection))

step_compare_dates ==
    /\ "compare_dates" \in todo
    /\ RunNode("compare_dates", compare_dates_node(state))

step_allowance_check ==
    /\ "allowance_check" \in todo
    /\ RunNode("allowance_check", allowance_check_node(state))

step_approval_decision ==
    \E decision \in ApprovalDecisions :
        /\ "approval_decision" \in todo
        /\ RunNode("approval_decision",
                   approval_decision_node(state, decision))

step_update_ticket_status ==
    \E answer \in PutAnswers :
        /\ "update_ticket_status" \in todo
        /\ RunNode("update_ticket_status",
                   update_ticket_status_node(state, answer))

\* the keys written by the update of node n of this superstep
Written(n) == DOMAIN ran[n].update

\* end of a superstep: the updates of all nodes that ran are merged, a key
\* written by two of them is an InvalidUpdateError, and the nodes behind the
\* outgoing edges are triggered; the run is over when none is
apply_writes ==
    /\ status = "running"
    /\ todo = {}
    /\ LET done == DOMAIN ran
           conflict == \E a, b \in done :
                           a # b /\ Written(a) \cap Written(b) # {}
           keys == UNION {Written(n) : n \in done}
           new == [k \in keys |->
                      ran[CHOOSE n \in done : k \in Written(n)].update[k]]
       IN  IF conflict
           THEN /\ status' = "failed"
                /\ raisedBy' = "apply_writes"
                /\ UNCHANGED <<state, todo, ran, merged, writers>>
           ELSE /\ state' = Merge(state, new)
                /\ todo' = Triggered(edges, done)
                /\ ran' = EmptyDict
                /\ status' = IF Triggered(edges, done) = {}
                             THEN "done" ELSE "running"
                /\ merged' = merged \cup done
                /\ writers' = [f \in Fields |->
                                 writers[f] \cup {n \in done : f \in Written(n)}]
                /\ UNCHANGED raisedBy
    /\ UNCHANGED <<execCount, putLog, edges, call, ret>>

Next ==
    \/ step_extract_pdf
    \/ step_extract_data
    \/ step_get_allowances
    \/ step_check_ticket_exists
    \/ step_check_total
    \/ step_select_daily_rate
    \/ step_compare_dates
    \/ step_allowance_check
    \/ step_approval_decision
    \/ step_update_ticket_status
    \/ apply_writes

Spec == Init /\ [][Next]_vars

-----------------------------------------------------------------------------
(* A node function called directly on a state, as a unit test calls it:    *)
(* a graph of that node alone, started on an arbitrary GraphState.         *)

\* the keys a node function reads with state.get
Reads(n) ==
    CASE n = "extract_pdf" -> {"pdf_path"}
      [] n = "extract_data" -> {"pdf_sections"}
      [] n = "get_allowances" -> {}
      [] n = "check_ticket_exists" -> {"header_extraction"}
      [] n = "check_total" -> {"invoices_extraction", "summary_extraction"}
      [] n = "select_daily_rate" -> {"header_extraction", "allowances"}
      [] n = "compare_dates" -> {"header_extraction", "summary_extraction"}
      [] n = "allowance_check" ->
             {"date_comparsion", "rate_selection", "summary_extraction"}
      [] n = "approval_decision" ->
             {"total_ok", "ticket_exists", "allowance_calculation",
              "date_comparsion"}
      [] n = "update_ticket_status" ->
             {"ticket_data", "approval_decision", "header_extraction"}

Restrict(d, keys) == [k \in DOMAIN d \cap keys |-> d[k]]

\* a state with every field set
FullState(ticket_id, ticket_data, approve) ==
    [pdf_path |-> "report.pdf",
     pdf_sections |-> Sections,
     header_extraction |-> [destination |-> Some("Berlin"),
                            time_period_header |-> Some(<<1, 2>>),
                            ticket_id |-> ticket_id],
     invoices_extraction |-> [invoices |-> <<[amount |-> 100]>>],
     summary_extraction |-> [total |-> 100, allowance |-> 10000,
                             time_period_summary |-> Some(<<1, 2>>)],
     allowances |-> Rates,
     total_ok |-> TRUE,
     ticket_exists |-> ~IsNone(ticket_data),
     allowance_calculation |-> [days |-> 2, expected_allowance |-> 10000,
                                matches_summary |-> TRUE],
     ticket_data |-> ticket_data,
     rate_selection |-> [matched_city |-> Some("Berlin"),
                         daily_rate |-> Some(5000)],
     date_comparsion |-> [periods_match |-> TRUE, trip_days |-> Some(2)],
     approval_decision |-> [approve |-> approve, comment |-> "comment"]]

\* the states node n is called on: any subset of the fields it reads, with
\* the other fields all set or all missing
CallStates(n) ==
    {Restrict(FullState(t, d, a), present \cup others) :
        t \in {None} \cup {Some(i) : i \in TicketIds},
        d \in {None, Some(TicketRecord("992211"))},
        a \in BOOLEAN,
        present \in SUBSET Reads(n),
        others \in {{}, Fields \ Reads(n)}}

InitNode ==
    /\ \E n \in Nodes :
          /\ edges = {<<"START", n>>, <<n, "END">>}
          /\ todo = {n}
          /\ state \in CallStates(n)
    /\ ran = EmptyDict
    /\ status = "running"
    /\ raisedBy = "none"
    /\ execCount = [n \in Nodes |-> 0]
    /\ merged = {}
    /\ writers = [f \in Fields |-> {}]
    /\ putLog = <<>>
    /\ call = None
    /\ ret = None

SpecNode == InitNode /\ [][Next]_vars

TypeOK ==
    /\ DOMAIN state \subseteq Fields
    /\ todo \subseteq Nodes
    /\ DOMAIN ran \subseteq Nodes
    /\ status \in {"running", "done", "failed"}

-----------------------------------------------------------------------------
(* The backend tools called on their own, as main.py and a unit test call  *)
(* them: one call per behaviour, on arguments of the declared types.       *)

OptTicketIds == {None} \cup {Some(t) : t \in TicketIds}

\* the dicts expense.model_dump() gives, and the str the graph node passes
ExpenseReports ==
    {PyDict([ticket_id |-> t]) : t \in OptTicketIds} \cup {PyStr("992211")}

\* ticket records as the backend returns them, None when none was fetched
TicketDatas ==
    {None, Some(TicketRecord("992211")),
     Some([ticketID |-> "992211", ticketStatus |-> "APPROVED",
           comment |-> "old comment"])}

\* main.py: the ticket is looked up with the dumped expense report and the
\* write-back gets the extracted ticket_id and the record of the lookup
main(expense, decision, get_answer, put_answer) ==
    LET c == check_ticket_exists(PyDict(expense), get_answer)
        u == update_ticket_status(expense.ticket_id, decision, c.ticket_data,
                                  put_answer)
    IN  [raised |-> c.raised \/ u.raised,
         exists |-> c.exists,
         ticket_data |-> c.ticket_data,
         put |-> u.put]

ToolCalls ==
    {[fn |-> "get_allowances", answer |-> a] : a \in AllowanceAnswers}
    \cup {[fn |-> "check_ticket_exists", expense_report |-> e, answer |-> a] :
             e \in ExpenseReports, a \in GetAnswers}
    \cup {[fn |-> "update_ticket_status", ticket_id |-> t, decision |-> d,
           ticket_data |-> r, answer |-> a] :
             t \in OptTicketIds, d \in ApprovalDecisions, r \in TicketDatas,
             a \in PutAnswers}
    \cup {[fn |-> "main", expense |-> [ticket_id |-> t], decision |-> d,
           get_answer |-> g, put_answer |-> a] :
             t \in OptTicketIds, d \in ApprovalDecisions, g \in GetAnswers,
             a \in PutAnswers}

InitTools ==
    /\ call \in ToolCalls
    /\ ret = None
    /\ state = EmptyDict
    /\ edges = {}
    /\ todo = {}
    /\ ran = EmptyDict
    /\ status = "done"
    /\ raisedBy = "none"
    /\ execCount = [n \in Nodes |-> 0]
    /\ merged = {}
    /\ writers = [f \in Fields |-> {}]
    /\ putLog = <<>>

Return(r) ==
    /\ IsNone(ret)
    /\ ret' = Some(r)
    /\ UNCHANGED <<state, todo, ran, status, raisedBy, execCount, merged,
                   writers, putLog, edges, call>>

call_get_allowances ==
    /\ call.fn = "get_allowances"
    /\ Return([raised |-> FALSE, value |-> get_allowances(call.answer)])

call_check_ticket_exists ==
    /\ call.fn = "check_ticket_exists"
    /\ Return(check_ticket_exists(call.expense_report, call.answer))

call_update_ticket_status ==
    /\ call.fn = "update_ticket_status"
    /\ Return(update_ticket_status(call.ticket_id, call.decision,
                                   call.ticket_data, call.answer))

call_main ==
    /\ call.fn = "main"
    /\ Return(main(call.expense, call.decision, call.get_answer,
                   call.put_answer))

NextTools ==
    \/ call_get_allowances
    \/ call_check_ticket_exists
    \/ call_update_ticket_status
    \/ call_main

SpecTools == InitTools /\ [][NextTools]_vars

-----------------------------------------------------------------------------
(* The checks of tools/checks.py and check_total of main.py called on      *)
(* their own, on every argument within the bounds.                         *)

\* an amount as the caller may hand it over: None is a value that is no
\* number
AmountInputs == {None} \cup {Some(c) : c \in 0..MaxCents}

InvoiceInputs ==
    UNION {[1..n -> [amount : AmountInputs]] : n \in 0..MaxInvoices}

TotalInputs == 0..(MaxCents * MaxInvoices)

PeriodInputs ==
    {None} \cup {Some(m) : m \in UNION {[1..n -> 0..MaxDate] :
                                           n \in 0..MaxMatches}}

TripDaysInputs == {None} \cup {Some(d) : d \in 0..MaxDate}

AllowanceInputs == {None} \cup {Some(c) : c \in 0..(MaxCents * MaxDate + 1)}

\* sum() over the amounts raises TypeError when one of them is no number
SumRaises(invoices) == \E i \in DOMAIN invoices : IsNone(invoices[i].amount)

\* the invoices with their amounts as numbers
Numbers(invoices) ==
    [i \in DOMAIN invoices |-> [amount |-> Val(invoices[i].amount)]]

CheckCalls ==
    {[fn |-> "check_total", invoices |-> i, total |-> t] :
        i \in InvoiceInputs, t \in TotalInputs}
    \cup {[fn |-> "main_check_total",
           expense_report_dict |-> [invoices |-> i, summary |-> [total |-> t]]] :
             i \in InvoiceInputs,
             t \in {None} \cup {Some(c) : c \in TotalInputs}}
    \cup {[fn |-> "_extract_dates", period_str |-> p] : p \in PeriodInputs}
    \cup {[fn |-> "compare_time_periods_with_llm", header_time_period |-> h,
           summary_time_period |-> p] :
             h \in PeriodInputs, p \in PeriodInputs}
    \cup {[fn |-> "calculate_allowance",
           date_comparsion |-> [periods_match |-> m, trip_days |-> d],
           daily_rate |-> r, extracted_allowance |-> a] :
             m \in BOOLEAN, d \in TripDaysInputs,
             r \in {None} \cup {Some(c) : c \in 0..MaxCents},
             a \in AllowanceInputs}

InitChecks ==
    /\ call \in CheckCalls
    /\ ret = None
    /\ state = EmptyDict
    /\ edges = {}
    /\ todo = {}
    /\ ran = EmptyDict
    /\ status = "done"
    /\ raisedBy = "none"
    /\ execCount = [n \in Nodes |-> 0]
    /\ merged = {}
    /\ writers = [f \in Fields |-> {}]
    /\ putLog = <<>>

call_check_total ==
    /\ call.fn = "check_total"
    /\ Return(IF SumRaises(call.invoices)
              THEN [raised |-> TRUE, value |-> FALSE]
              ELSE [raised |-> FALSE,
                    value |-> check_total([invoices |-> Numbers(call.invoices)],
                                          [total |-> call.total])])

call_main_check_total ==
    /\ call.fn = "main_check_total"
    /\ Return([raised |-> FALSE,
               value |-> main_check_total(call.expense_report_dict)])

call_extract_dates ==
    /\ call.fn = "_extract_dates"
    /\ Return([raised |-> FALSE, value |-> _extract_dates(call.period_str)])

call_compare_time_periods_with_llm ==
    /\ call.fn = "compare_time_periods_with_llm"
    /\ Return([raised |-> FALSE,
               value |-> compare_time_periods_with_llm(
                             call.header_time_period,
                             call.summary_time_period)])

call_calculate_allowance ==
    /\ call.fn = "calculate_allowance"
    /\ Return([raised |-> FALSE,
               value |-> calculate_allowance(call.date_comparsion,
                                             call.daily_rate,
                                             call.extracted_allowance)])

NextChecks ==
    \/ call_check_total
    \/ call_main_check_total
    \/ call_extract_dates
    \/ call_compare_time_periods_with_llm
    \/ call_calculate_allowance

SpecChecks == InitChecks /\ [][NextChecks]_vars

-----------------------------------------------------------------------------
(* A node function called twice in a row with the same collaborator        *)
(* answers, the second time on the state the first call left merged.       *)

\* the answers the collaborators of node n give to one call
AnswersOf(n) ==
    CASE n = "extract_pdf" -> {[sections |-> Sections]}
      [] n = "extract_data" ->
             [header : HeaderExtractions, invoices : InvoicesExtractions,
              summary : SummaryExtractions]
      [] n = "get_allowances" -> [backend : AllowanceAnswers]
      [] n = "check_ticket_exists" -> [backend : GetAnswers]
      [] n = "select_daily_rate" -> [selection : RateSelections]
      [] n = "approval_decision" -> [decision : ApprovalDecisions]
      [] n = "update_ticket_status" -> [backend : PutAnswers]
      [] OTHER -> {[backend |-> "none"]}

\* the node function of n called on state s with the answers a
NodeCall(n, s, a) ==
    CASE n = "extract_pdf" -> extract_pdf_node(s, a.sections)
      [] n = "extract_data" ->
             extract_data_node(s, a.header, a.invoices, a.summary)
      [] n = "get_allowances" -> get_allowances_node(s, a.backend)
      [] n = "check_ticket_exists" -> check_ticket_exists_node(s, a.backend)
      [] n = "check_total" -> check_total_node(s)
      [] n = "select_daily_rate" -> select_daily_rate_node(s, a.selection)
      [] n = "compare_dates" -> compare_dates_node(s)
      [] n = "allowance_check" -> allowance_check_node(s)
      [] n = "approval_decision" -> approval_decision_node(s, a.decision)
      [] n = "update_ticket_status" ->
             update_ticket_status_node(s, a.backend)

\* one execution of node n: its result, the state with the returned update
\* merged, and the ticket the backend holds, which a PUT answered with 200
\* or 204 has replaced
Execution(n, s, ticket, a) ==
    LET r == NodeCall(n, s, a)
    IN  [result |-> r,
         state |-> IF r.raised THEN s ELSE Merge(s, r.update),
         ticket |-> IF ~IsNone(r.put) /\ a.backend \in {"200", "204"}
                    THEN r.put ELSE ticket]

InitTwice ==
    /\ \E n \in Nodes :
          call \in [node : {n}, state : CallStates(n), answers : AnswersOf(n),
                    ticket : {Some(TicketRecord("992211"))}]
    /\ ret = <<>>
    /\ state = EmptyDict
    /\ edges = {}
    /\ todo = {}
    /\ ran = EmptyDict
    /\ status = "done"
    /\ raisedBy = "none"
    /\ execCount = [n \in Nodes |-> 0]
    /\ merged = {}
    /\ writers = [f \in Fields |-> {}]
    /\ putLog = <<>>

first_execution ==
    /\ Len(ret) = 0
    /\ ret' = <<Execution(call.node, call.state, call.ticket, call.answers)>>
    /\ UNCHANGED <<state, todo, ran, status, raisedBy, execCount, merged,
                   writers, putLog, edges, call>>

second_execution ==
    /\ Len(ret) = 1
    /\ ret' = Append(ret, Execution(call.node, ret[1].state, ret[1].ticket,
                                    call.answers))
    /\ UNCHANGED <<state, todo, ran, status, raisedBy, execCount, merged,
                   writers, putLog, edges, call>>

NextTwice ==
    \/ first_execution
    \/ second_execution

SpecTwice == InitTwice /\ [][NextTwice]_vars

-----------------------------------------------------------------------------
(* main.py started from the command line: the __main__ block and main(),   *)
(* one statement group per step.  ret holds the process: where it is, its  *)
(* exit status, what it printed as an error, the collaborators it has      *)
(* used, and the values main() keeps.                                      *)

\* the paths a caller may name, and the files that exist
Paths == {"report.pdf", "missing.pdf"}
Files == {"report.pdf"}

\* the path names a file that is always found
path_exists_always(pdf_path, files) == TRUE

\* pdf_path.exists()
path_exists(pdf_path, files) == pdf_path \in files

\* the expense reports the extraction may return
ExpenseAnswers ==
    [ticket_id : OptTicketIds,
     invoices : {<<>>, <<[amount |-> Some(1)]>>},
     summary : [total : {Some(0), Some(1)}]]

Process(pc, exit_status, printed, effects, locals) ==
    [pc |-> pc, exit_status |-> exit_status, printed |-> printed,
     effects |-> effects, locals |-> locals]

InitCli ==
    /\ call \in [argv : UNION {[1..n -> Paths] : n \in 0..MaxArgs}]
    /\ ret = Process("__main__", None, {}, {}, EmptyDict)
    /\ state = EmptyDict
    /\ edges = {}
    /\ todo = {}
    /\ ran = EmptyDict
    /\ status = "done"
    /\ raisedBy = "none"
    /\ execCount = [n \in Nodes |-> 0]
    /\ merged = {}
    /\ writers = [f \in Fields |-> {}]
    /\ putLog = <<>>

\* the process goes on to p
Goto(p) ==
    /\ ret' = p
    /\ UNCHANGED <<state, todo, ran, status, raisedBy, execCount, merged,
                   writers, putLog, edges, call>>

\* if len(sys.argv) != 2: usage, sys.exit(1)
cli_entry ==
    /\ ret.pc = "__main__"
    /\ Goto(IF Len(call.argv) # 1
            THEN Process("exit", Some(1), {"usage"}, ret.effects, ret.locals)
            ELSE Process("main", None, ret.printed, ret.effects, ret.locals))

\* if not pdf_path.exists(): message, sys.exit(1)
main_check_path ==
    /\ ret.pc = "main"
    /\ Goto(IF ~path_exists(call.argv[1], Files)
            THEN Process("exit", Some(1), {"PDF not found"}, ret.effects,
                         ret.locals)
            ELSE Process("extract", None, ret.printed, ret.effects,
                         ret.locals))

\* extract_sections_from_pdf and analyze_expenses_with_llm
main_extract ==
    /\ ret.pc = "extract"
    /\ \E expense \in ExpenseAnswers :
          Goto(Process("allowances", None, ret.printed,
                       ret.effects \cup {"pdf_reader", "llm"},
                       [expense |-> expense]))

\* get_allowances, check_total and check_ticket_exists
main_tools ==
    /\ ret.pc = "allowances"
    /\ \E a \in AllowanceAnswers, g \in GetAnswers :
          LET expense == ret.locals.expense
              lookup == check_ticket_exists(PyDict(expense), g)
          IN  Goto(Process("decision", None, ret.printed,
                           ret.effects \cup {"backend"},
                           [expense |-> expense,
                            allowances |-> get_allowances(a),
                            total_ok |-> main_check_total(expense),
                            ticket_exists |-> lookup.exists,
                            cached_ticket_data |-> lookup.ticket_data]))

\* select_daily_rate_with_llm, calculate_allowance_with_llm and
\* build_approval_decision_with_llm
main_decision ==
    /\ ret.pc = "decision"
    /\ \E decision \in ApprovalDecisions :
          Goto(Process("update", None, ret.printed, ret.effects,
                       [k \in DOMAIN ret.locals \cup {"decision"} |->
                           IF k = "decision" THEN decision
                           ELSE ret.locals[k]]))

\* update_ticket_status; an exception it raises ends the process with
\* status 1
main_update ==
    /\ ret.pc = "update"
    /\ \E answer \in PutAnswers :
          LET u == update_ticket_status(ret.locals.expense.ticket_id,
                                        ret.locals.decision,
                                        ret.locals.cached_ticket_data, answer)
          IN  Goto(IF u.raised
                   THEN Process("exit", Some(1), {"Traceback"}, ret.effects,
                                ret.locals)
                   ELSE Process("exit", Some(0), ret.printed, ret.effects,
                                ret.locals))

NextCli ==
    \/ cli_entry
    \/ main_check_path
    \/ main_extract
    \/ main_tools
    \/ main_decision
    \/ main_update

SpecCli == InitCli /\ [][NextCli]_vars

-----------------------------------------------------------------------------
(* Properties *)

TicketIdOf(s) ==
    IF Has(s, "header_extraction") THEN s.header_extraction.ticket_id ELSE None

TicketDataOf(s) == IF Has(s, "ticket_data") THEN s.ticket_data ELSE None

Finished == status \in {"done", "failed"}

\* C1: the PUT of the ticket is issued at most once per run, only by
\* update_ticket_status, and only when the state it read held a ticket_id, an
\* approval_decision and ticket_data.
C1_WriteBackAtMostOnce ==
    /\ Len(putLog) <= 1
    /\ \A i \in DOMAIN putLog :
          /\ putLog[i].node = "update_ticket_status"
          /\ ~IsNone(TicketIdOf(putLog[i].read))
          /\ Has(putLog[i].read, "approval_decision")
          /\ ~IsNone(TicketDataOf(putLog[i].read))

\* update_ticket_status has run on a state holding a ticket_id and a decision
\* and the run has ended
C1_Witness ==
    /\ status = "done"
    /\ execCount["update_ticket_status"] = 2
    /\ ~IsNone(TicketIdOf(state))
    /\ Has(state, "approval_decision")
    /\ Len(putLog) <= 1

\* C2: once the workflow has started no step raises an error.
C2_NoStepRaises == status # "failed"

\* C3: every run writes approval_decision and then reaches the end of the
\* graph; it never stops before a decision exists.
C3_RunReachesDecision ==
    Finished => (status = "done" /\ Has(state, "approval_decision"))

\* C4: a run with a non-empty ticket_id whose total and date periods match
\* ends with a decision, and approve is true exactly if the ticket was found
\* and the total, the periods and the allowance all match.
C4_EndToEndApproval ==
    ( /\ Finished
      /\ Has(state, "header_extraction")
      /\ ~IsNone(TicketIdOf(state))
      /\ Val(TicketIdOf(state)) # ""
      /\ check_total(state.invoices_extraction, state.summary_extraction)
      /\ compare_time_periods_with_llm(
             state.header_extraction.time_period_header,
             state.summary_extraction.time_period_summary).periods_match )
    => ( /\ status = "done"
         /\ Has(state, "approval_decision")
         /\ state.approval_decision.approve =
               ( /\ state.total_ok
                 /\ state.ticket_exists
                 /\ state.allowance_calculation.matches_summary
                 /\ state.date_comparsion.periods_match ) )

\* C5: whenever a decision has been produced, approve is the conjunction of
\* total_ok, ticket_exists, matches_summary and periods_match.
C5_ApproveIsConjunction ==
    Has(state, "approval_decision") =>
        state.approval_decision.approve =
            ( /\ state.total_ok
              /\ state.ticket_exists
              /\ state.allowance_calculation.matches_summary
              /\ state.date_comparsion.periods_match )

\* C6: in every run each of the ten steps is executed exactly once.
C6_EachStepExactlyOnce ==
    /\ \A n \in Nodes : execCount[n] <= 1
    /\ status = "done" => \A n \in Nodes : execCount[n] = 1

RECURSIVE AncestorsUpTo(_, _)
AncestorsUpTo(n, k) ==
    IF k = 0
    THEN {}
    ELSE LET parents == {m \in Nodes : <<m, n>> \in Edges}
         IN  parents \cup UNION {AncestorsUpTo(m, k - 1) : m \in parents}

Ancestors(n) == AncestorsUpTo(n, Cardinality(Nodes))

\* C7: no step starts before every step it depends on has completed and
\* merged its writes.
C7_NoStepBeforeDependencies ==
    [][\A n \in Nodes :
          execCount'[n] > execCount[n] => Ancestors(n) \subseteq merged]_vars

\* the declared inputs of a step that are absent from state s
AbsentInputs(n, s) ==
    {f \in Reads(n) : ~Has(s, f)}
    \cup (IF n = "update_ticket_status" /\ IsNone(TicketDataOf(s))
          THEN {"ticket_data"} ELSE {})
    \cup (IF n = "update_ticket_status" /\ IsNone(TicketIdOf(s))
          THEN {"ticket_id"} ELSE {})

\* C8: a step invoked on a state lacking one of its required inputs calls no
\* external collaborator, raises no error and returns an empty update.
C8_GuardReturnsEmptyUpdate ==
    \A n \in Nodes :
        AbsentInputs(n, state) # {} =>
            /\ raisedBy # n
            /\ n \in DOMAIN ran =>
                  /\ ran[n].calls = {}
                  /\ ran[n].update = EmptyDict

\* C9: update_ticket_status invoked on a state without ticket_data makes no
\* backend call, raises nothing and leaves every field of the state as it was,
\* whatever approval_decision is.
C9_NoTicketDataNoEffect ==
    IsNone(TicketDataOf(state)) =>
        /\ raisedBy # "update_ticket_status"
        /\ putLog = <<>>
        /\ "update_ticket_status" \in DOMAIN ran =>
              /\ ran["update_ticket_status"].calls = {}
              /\ Merge(state, ran["update_ticket_status"].update) = state

\* update_ticket_status has returned on a state with a ticket_id and an
\* approving decision but no ticket_data
C9_Witness ==
    /\ "update_ticket_status" \in DOMAIN ran
    /\ IsNone(TicketDataOf(state))
    /\ TicketIdOf(state) = Some("992211")
    /\ Has(state, "approval_decision")
    /\ state.approval_decision.approve

\* the step the data model names as the writer of a field
DeclaredWriter(f) ==
    CASE f = "pdf_path" -> "START"
      [] f = "pdf_sections" -> "extract_pdf"
      [] f \in {"header_extraction", "invoices_extraction",
                "summary_extraction"} -> "extract_data"
      [] f = "allowances" -> "get_allowances"
      [] f = "total_ok" -> "check_total"
      [] f \in {"ticket_exists", "ticket_data"} -> "check_ticket_exists"
      [] f = "rate_selection" -> "select_daily_rate"
      [] f = "date_comparsion" -> "compare_dates"
      [] f = "allowance_calculation" -> "allowance_check"
      [] f = "approval_decision" -> "approval_decision"

\* C10: over a whole run every field is written by the updates of its
\* declared writer only.
C10_SingleWriterPerField ==
    \A f \in Fields : writers[f] \subseteq {DeclaredWriter(f)}

\* C11: the state starts with pdf_path alone and only grows: every step
\* leaves all fields that were present in place.
C11_StateGrowsMonotonically ==
    /\ DOMAIN state = {"pdf_path"}
    /\ [][DOMAIN state \subseteq DOMAIN state']_vars

\* the run has ended with every field of the GraphState present
C11_Witness ==
    /\ status = "done"
    /\ DOMAIN state = Fields

\* C12: no step changes a field outside its declared write-set; the update
\* returned by update_ticket_status, whose write-set is empty, changes none,
\* ticket_data included, also when the PUT is sent.
C12_NoWriteOutsideWriteSet ==
    \A n \in DOMAIN ran :
        \A f \in DOMAIN ran[n].update :
            (~Has(state, f) \/ ran[n].update[f] # state[f])
                => DeclaredWriter(f) = n

\* C13: updates are merged atomically: the state a step reads never holds
\* only some of the fields that one step writes together (ticket_exists
\* without ticket_data, header_extraction without the other extractions).
C13_AtomicMerge ==
    (todo # {} \/ DOMAIN ran # {}) =>
        \A f, g \in Fields :
            DeclaredWriter(f) = DeclaredWriter(g)
                => (Has(state, f) <=> Has(state, g))

\* approval_decision has read a state holding the fields written together by
\* extract_data and by check_ticket_exists
C13_Witness ==
    /\ "approval_decision" \in DOMAIN ran
    /\ {"header_extraction", "invoices_extraction", "summary_extraction",
        "ticket_exists", "ticket_data"} \subseteq DOMAIN state

\* C14: the outcome of a run depends on the collaborators' answers only, not
\* on the order in which the steps of a superstep are executed: whether the
\* run ends is fixed by the extracted ticket_id, and the final state and the
\* write-back are functions of the answers the state records (the
\* extractions, the allowances, the rate selection and the decision).
C14_OrderIndependentOutcome ==
    Finished =>
        /\ (status = "failed") <=>
              (~IsNone(TicketIdOf(state)) /\ Val(TicketIdOf(state)) # "")
        /\ status = "done" =>
              /\ DOMAIN state = Fields
              /\ state.total_ok = check_total(state.invoices_extraction,
                                              state.summary_extraction)
              /\ state.date_comparsion =
                    compare_time_periods_with_llm(
                        state.header_extraction.time_period_header,
                        state.summary_extraction.time_period_summary)
              /\ state.allowance_calculation =
                    calculate_allowance(state.date_comparsion,
                                        state.rate_selection.daily_rate,
                                        Some(state.summary_extraction.allowance))
              /\ state.ticket_exists = FALSE
              /\ state.ticket_data = None
              /\ putLog = <<>>

\* a run has ended whose four parallel checks all produced a result, two of
\* them positive
C14_Witness ==
    /\ status = "done"
    /\ state.total_ok
    /\ state.date_comparsion.periods_match
    /\ state.allowance_calculation.matches_summary

NonEmptyTicketId(s) ==
    ~IsNone(TicketIdOf(s)) /\ Val(TicketIdOf(s)) # ""

\* what the lookup of ticket id is to write for a backend answer
LookupResult(id, answer) ==
    CASE answer = "200_json" ->
             [ticket_exists |-> TRUE, ticket_data |-> Some(TicketRecord(id))]
      [] answer = "200_null" ->
             [ticket_exists |-> TRUE, ticket_data |-> None]
      [] OTHER ->
             [ticket_exists |-> FALSE, ticket_data |-> None]

\* C15: check_ticket_exists called on a state with a non-empty ticket_id does
\* not raise, asks the backend, and writes ticket_exists = true with the
\* record for a 200 answer with a parsable body and ticket_exists = false
\* without ticket_data for every other answer.
C15_LookupByTicketId ==
    (NonEmptyTicketId(state) /\ execCount["check_ticket_exists"] > 0) =>
        /\ raisedBy # "check_ticket_exists"
        /\ "check_ticket_exists" \in DOMAIN ran =>
              /\ ran["check_ticket_exists"].calls = {"backend"}
              /\ \E answer \in GetAnswers :
                    ran["check_ticket_exists"].update =
                        LookupResult(Val(TicketIdOf(state)), answer)

\* C16: check_ticket_exists called on a state without header_extraction, or
\* whose ticket_id is None or the empty string, does not raise, makes no
\* backend call and writes ticket_exists = false and ticket_data = None.
C16_NoTicketIdShortCircuit ==
    (~NonEmptyTicketId(state) /\ execCount["check_ticket_exists"] > 0) =>
        /\ raisedBy # "check_ticket_exists"
        /\ "check_ticket_exists" \in DOMAIN ran =>
              /\ ran["check_ticket_exists"].calls = {}
              /\ ran["check_ticket_exists"].update =
                    [ticket_exists |-> FALSE, ticket_data |-> None]
        /\ "check_ticket_exists" \in merged =>
              /\ state.ticket_exists = FALSE
              /\ state.ticket_data = None

\* check_ticket_exists has returned on a state whose ticket_id is the empty
\* string
C16_Witness ==
    /\ "check_ticket_exists" \in DOMAIN ran
    /\ TicketIdOf(state) = Some("")
    /\ ran["check_ticket_exists"].calls = {}

Returned(fn) == ~IsNone(call) /\ call.fn = fn /\ ~IsNone(ret)

\* C17: whenever the ticket lookup has produced a result, ticket_data is a
\* record exactly if ticket_exists is true, whatever the backend answered,
\* a 200 answer with the body null included.
C17_TicketDataIffExists ==
    (Returned("check_ticket_exists") /\ ~Val(ret).raised) =>
        (Val(ret).exists <=> ~IsNone(Val(ret).ticket_data))

\* C18: update_ticket_status called with ticket_id None or "", or with
\* ticket_data None, sends no request and returns without raising; so does
\* the call main makes when the lookup gave it no ticket_data.
C18_WriteBackNoOpWhenAbsent ==
    /\ (/\ Returned("update_ticket_status")
        /\ \/ IsNone(call.ticket_id)
           \/ Val(call.ticket_id) = ""
           \/ IsNone(call.ticket_data)) =>
           /\ ~Val(ret).raised
           /\ IsNone(Val(ret).put)
    /\ (/\ Returned("main")
        /\ \/ IsNone(call.expense.ticket_id)
           \/ Val(call.expense.ticket_id) = ""
           \/ IsNone(Val(ret).ticket_data)) =>
           /\ ~Val(ret).raised
           /\ IsNone(Val(ret).put)

\* the record body sent for decision is old with the status and the comment
\* of the decision and nothing else changed
IsDecided(body, old, decision) ==
    /\ body.ticketStatus = IF decision.approve THEN "APPROVED" ELSE "REJECTED"
    /\ body.comment = decision.comment
    /\ DOMAIN body = DOMAIN old
    /\ \A k \in DOMAIN old \ {"ticketStatus", "comment"} : body[k] = old[k]

\* C19: the record of a PUT has ticketStatus APPROVED if the decision
\* approves and REJECTED if not, comment equal to the decision's comment,
\* and every other field as in the fetched record.
C19_WriteBackRecord ==
    /\ (Returned("update_ticket_status") /\ ~IsNone(Val(ret).put)) =>
           IsDecided(Val(Val(ret).put), Val(call.ticket_data), call.decision)
    /\ (Returned("main") /\ ~IsNone(Val(ret).put)) =>
           IsDecided(Val(Val(ret).put), Val(Val(ret).ticket_data),
                     call.decision)

\* a ticket fetched as APPROVED has been written back for a rejecting
\* decision
C19_Witness ==
    /\ Returned("update_ticket_status")
    /\ ~IsNone(Val(ret).put)
    /\ ~call.decision.approve
    /\ Val(call.ticket_data).ticketStatus = "APPROVED"
    /\ Val(Val(ret).put).ticketStatus = "REJECTED"

\* C20: get_allowances never raises and returns the empty mapping for a
\* transport error, a status other than 200, and a body that is unparsable
\* or no mapping of numbers; the get_allowances step writes what it returns
\* under allowances.
C20_AllowancesEmptyOnFailure ==
    Returned("get_allowances") =>
        /\ ~Val(ret).raised
        /\ call.answer # "200_json" => Val(ret).value = EmptyDict
        /\ LET r == get_allowances_node(EmptyDict, call.answer)
           IN  /\ ~r.raised
               /\ r.update = [allowances |-> Val(ret).value]

\* get_allowances has returned for a 200 answer with a value that is no
\* number
C20_Witness ==
    /\ Returned("get_allowances")
    /\ call.answer = "200_nonnumeric"
    /\ Val(ret).value = EmptyDict

\* the invoices whose amount is a number
NumericInvoices(invoices) ==
    SelectSeq(invoices, LAMBDA inv : ~IsNone(inv.amount))

\* C21: for amounts and totals that are whole cents, check_total (of
\* tools/checks.py and of main.py) returns true exactly if the sum of the
\* amounts and the total differ by at most one cent, a difference of exactly
\* one cent included.
C21_TotalWithinTolerance ==
    /\ (Returned("check_total") /\ ~SumRaises(call.invoices)) =>
           (Val(ret).value <=>
               Abs(SumNumericAmounts(call.invoices) - call.total) <= 1)
    /\ (/\ Returned("main_check_total")
        /\ ~SumRaises(call.expense_report_dict.invoices)
        /\ ~IsNone(call.expense_report_dict.summary.total)) =>
           (Val(ret).value <=>
               Abs(SumNumericAmounts(call.expense_report_dict.invoices)
                   - Val(call.expense_report_dict.summary.total)) <= 1)

ValidPeriod(p) ==
    /\ ~IsNone(p)
    /\ Len(Val(p)) >= 2
    /\ Val(p)[1] >= 1
    /\ Val(p)[2] >= 1

MinOf(a, b) == IF a <= b THEN a ELSE b
MaxOf(a, b) == IF a >= b THEN a ELSE b

\* the (start, end) pair and the inclusive day count of a valid period
PairOf(p) == <<MinOf(Val(p)[1], Val(p)[2]), MaxOf(Val(p)[1], Val(p)[2])>>
DaysOf(p) == PairOf(p)[2] - PairOf(p)[1] + 1

\* C23: compare_time_periods_with_llm returns periods_match = true exactly if
\* both period strings are valid and their (start, end) pairs are equal.
C23_PeriodsMatchIffEqualPairs ==
    Returned("compare_time_periods_with_llm") =>
        (Val(ret).value.periods_match <=>
            /\ ValidPeriod(call.header_time_period)
            /\ ValidPeriod(call.summary_time_period)
            /\ PairOf(call.header_time_period)
                   = PairOf(call.summary_time_period))

\* two different valid periods with the same start have been compared
C23_Witness ==
    /\ Returned("compare_time_periods_with_llm")
    /\ ValidPeriod(call.header_time_period)
    /\ ValidPeriod(call.summary_time_period)
    /\ PairOf(call.header_time_period)[1] = PairOf(call.summary_time_period)[1]
    /\ PairOf(call.header_time_period)[2] # PairOf(call.summary_time_period)[2]
    /\ ~Val(ret).value.periods_match

\* C24: when at least one period string is valid, trip_days is the inclusive
\* day count of the longer valid side, of the header on a tie, and of the
\* valid side when only one is valid.
C24_TripDaysOfLongerSide ==
    LET h == call.header_time_period
        p == call.summary_time_period
    IN  (Returned("compare_time_periods_with_llm")
         /\ (ValidPeriod(h) \/ ValidPeriod(p))) =>
            Val(ret).value.trip_days =
                Some(CASE ValidPeriod(h) /\ ValidPeriod(p) ->
                              IF DaysOf(p) > DaysOf(h)
                              THEN DaysOf(p) ELSE DaysOf(h)
                       [] ValidPeriod(h) /\ ~ValidPeriod(p) -> DaysOf(h)
                       [] OTHER -> DaysOf(p))

\* a valid summary period longer than the valid header period has been
\* compared
C24_Witness ==
    /\ Returned("compare_time_periods_with_llm")
    /\ ValidPeriod(call.header_time_period)
    /\ ValidPeriod(call.summary_time_period)
    /\ DaysOf(call.summary_time_period) > DaysOf(call.header_time_period)
    /\ Val(ret).value.trip_days = Some(DaysOf(call.summary_time_period))

\* the period string with its first two dates written in the opposite order
Reversed(p) ==
    Some([i \in DOMAIN Val(p) |->
             IF i = 1 THEN Val(p)[2] ELSE IF i = 2 THEN Val(p)[1]
             ELSE Val(p)[i]])

\* C25: for a period string with two dates, _extract_dates gives a pair with
\* start <= end that is the same for both orders of the dates, and
\* compare_time_periods_with_llm gives the same result when the dates of the
\* header or of the summary are written in the opposite order.
C25_ReversedRangesSelfHeal ==
    /\ (Returned("_extract_dates") /\ ValidPeriod(call.period_str)) =>
           /\ Val(ret).value = _extract_dates(Reversed(call.period_str))
           /\ Val(Val(ret).value[1]) <= Val(Val(ret).value[2])
    /\ Returned("compare_time_periods_with_llm") =>
           /\ ValidPeriod(call.header_time_period) =>
                 Val(ret).value =
                     compare_time_periods_with_llm(
                         Reversed(call.header_time_period),
                         call.summary_time_period)
           /\ ValidPeriod(call.summary_time_period) =>
                 Val(ret).value =
                     compare_time_periods_with_llm(
                         call.header_time_period,
                         Reversed(call.summary_time_period))

\* the dates of a period written with the later date first have been
\* extracted
C25_Witness ==
    /\ Returned("_extract_dates")
    /\ ValidPeriod(call.period_str)
    /\ Val(call.period_str)[1] > Val(call.period_str)[2]
    /\ Val(ret).value = <<Some(Val(call.period_str)[2]),
                          Some(Val(call.period_str)[1])>>

\* C26: a period string that is absent, has fewer than two matches, or whose
\* first two matches are not both calendar dates gives (None, None); two
\* such strings compare to periods_match = false with trip_days None; no
\* call raises.
C26_InvalidPeriods ==
    /\ Returned("_extract_dates") =>
           /\ ~Val(ret).raised
           /\ ~ValidPeriod(call.period_str) => Val(ret).value = <<None, None>>
    /\ Returned("compare_time_periods_with_llm") =>
           /\ ~Val(ret).raised
           /\ (/\ ~ValidPeriod(call.header_time_period)
               /\ ~ValidPeriod(call.summary_time_period)) =>
                  Val(ret).value = [periods_match |-> FALSE,
                                    trip_days |-> None]

\* two period strings whose second match is no calendar date have been
\* compared
C26_Witness ==
    /\ Returned("compare_time_periods_with_llm")
    /\ ~IsNone(call.header_time_period)
    /\ Len(Val(call.header_time_period)) >= 2
    /\ Val(call.header_time_period)[1] >= 1
    /\ Val(call.header_time_period)[2] = 0
    /\ call.summary_time_period = call.header_time_period
    /\ Val(ret).value = [periods_match |-> FALSE, trip_days |-> None]

\* C27: calculate_allowance with trip_days, daily_rate or the extracted
\* allowance None returns days = trip_days (0 when trip_days is None),
\* expected_allowance = 0 and matches_summary = false, and does not raise.
C27_AllowanceFallback ==
    (/\ Returned("calculate_allowance")
     /\ \/ IsNone(call.date_comparsion.trip_days)
        \/ IsNone(call.daily_rate)
        \/ IsNone(call.extracted_allowance)) =>
        /\ ~Val(ret).raised
        /\ Val(ret).value =
              [days |-> IF IsNone(call.date_comparsion.trip_days)
                        THEN 0 ELSE Val(call.date_comparsion.trip_days),
               expected_allowance |-> 0,
               matches_summary |-> FALSE]

\* calculate_allowance has been called with trip_days but without a daily
\* rate
C27_Witness ==
    /\ Returned("calculate_allowance")
    /\ ~IsNone(call.date_comparsion.trip_days)
    /\ Val(call.date_comparsion.trip_days) > 0
    /\ IsNone(call.daily_rate)
    /\ Val(ret).value.days = Val(call.date_comparsion.trip_days)

\* C28: calculate_allowance with all three inputs present returns days =
\* trip_days, expected_allowance = daily_rate * trip_days, and
\* matches_summary = true exactly if expected_allowance and the extracted
\* allowance differ by at most one cent.
C28_AllowanceComputed ==
    (/\ Returned("calculate_allowance")
     /\ ~IsNone(call.date_comparsion.trip_days)
     /\ ~IsNone(call.daily_rate)
     /\ ~IsNone(call.extracted_allowance)) =>
        LET days == Val(call.date_comparsion.trip_days)
            expected == Val(call.daily_rate) * days
        IN  /\ Val(ret).value.days = days
            /\ Val(ret).value.expected_allowance = expected
            /\ Val(ret).value.matches_summary <=>
                  Abs(expected - Val(call.extracted_allowance)) <= 1

\* an allowance one cent away from the expected one has been accepted
C28_Witness ==
    /\ Returned("calculate_allowance")
    /\ ~IsNone(call.date_comparsion.trip_days)
    /\ ~IsNone(call.daily_rate)
    /\ ~IsNone(call.extracted_allowance)
    /\ Val(call.daily_rate) * Val(call.date_comparsion.trip_days)
           = Val(call.extracted_allowance) + 1
    /\ Val(ret).value.matches_summary

\* C29: a step executed a second time with the same collaborator answers
\* returns what it returned the first time, and after the second execution
\* the shared state and the ticket in the backend are as they were after the
\* first; this holds for the write-back step too.
C29_SecondExecutionSameResult ==
    Len(ret) = 2 =>
        /\ ret[2].result = ret[1].result
        /\ ret[2].state = ret[1].state
        /\ ret[2].ticket = ret[1].ticket

\* the write-back step has sent its PUT twice and the backend holds the
\* rejected ticket
C29_Witness ==
    /\ Len(ret) = 2
    /\ call.node = "update_ticket_status"
    /\ ~IsNone(ret[1].result.put)
    /\ ~IsNone(ret[2].result.put)
    /\ Val(ret[2].ticket).ticketStatus = "REJECTED"

\* the nodes from which n is reached in graph by a path of at most k edges
RECURSIVE AncestorsIn(_, _, _)
AncestorsIn(graph, n, k) ==
    IF k = 0
    THEN {}
    ELSE LET parents == {m \in Nodes : <<m, n>> \in graph}
         IN  parents \cup UNION {AncestorsIn(graph, m, k - 1) : m \in parents}

\* graph is acyclic, its roots are extract_pdf and get_allowances, its only
\* terminal step is update_ticket_status, and every field a step reads is
\* pdf_path or is written by an ancestor of that step
GraphShape(graph) ==
    LET Anc(n) == AncestorsIn(graph, n, Cardinality(Nodes))
    IN  /\ \A n \in Nodes : n \notin Anc(n)
        /\ {n \in Nodes : <<"START", n>> \in graph}
               = {"extract_pdf", "get_allowances"}
        /\ {n \in Nodes : Anc(n) = {}} = {"extract_pdf", "get_allowances"}
        /\ {n \in Nodes : \A m \in Nodes : <<n, m>> \notin graph}
               = {"update_ticket_status"}
        /\ {n \in Nodes : <<n, "END">> \in graph} = {"update_ticket_status"}
        /\ \A n \in Nodes : \A f \in Reads(n) :
               f = "pdf_path" \/ DeclaredWriter(f) \in Anc(n)

EdgesShape == GraphShape(Edges)

DecisionInputs ==
    {"total_ok", "ticket_exists", "allowance_calculation", "date_comparsion"}

AllowanceInputFields ==
    {"date_comparsion", "rate_selection", "summary_extraction"}

\* C32: in every state of a run, approval_decision is present only together
\* with total_ok, ticket_exists, allowance_calculation and date_comparsion,
\* and allowance_calculation only together with date_comparsion,
\* rate_selection and summary_extraction; and the step that writes either
\* field has read a state in which these inputs were present.
C32_DecisionImpliesInputs ==
    /\ Has(state, "approval_decision") => DecisionInputs \subseteq DOMAIN state
    /\ Has(state, "allowance_calculation") =>
           AllowanceInputFields \subseteq DOMAIN state
    /\ ("approval_decision" \in DOMAIN ran
        /\ Has(ran["approval_decision"].update, "approval_decision")) =>
           DecisionInputs \subseteq DOMAIN state
    /\ ("allowance_check" \in DOMAIN ran
        /\ Has(ran["allowance_check"].update, "allowance_calculation")) =>
           AllowanceInputFields \subseteq DOMAIN state

\* the decision has been merged into the state while the run goes on
C32_Witness ==
    /\ status = "running"
    /\ Has(state, "approval_decision")
    /\ Has(state, "allowance_calculation")

\* C33: the write-back is never performed for a ticket that was not found:
\* every PUT was sent on a state with ticket_exists = true and a non-empty
\* ticket_id, and an execution of update_ticket_status on a state with
\* ticket_exists = false calls no backend.
C33_NoWriteBackWithoutTicket ==
    /\ \A i \in DOMAIN putLog :
          /\ Has(putLog[i].read, "ticket_exists")
          /\ putLog[i].read.ticket_exists
          /\ NonEmptyTicketId(putLog[i].read)
    /\ ("update_ticket_status" \in DOMAIN ran
        /\ Has(state, "ticket_exists") /\ ~state.ticket_exists) =>
           ran["update_ticket_status"].calls = {}

\* update_ticket_status has been executed with a decision for a ticket that
\* was not found
C33_Witness ==
    /\ "update_ticket_status" \in DOMAIN ran
    /\ Has(state, "approval_decision")
    /\ Has(state, "ticket_exists")
    /\ ~state.ticket_exists
    /\ ~IsNone(TicketIdOf(state))
    /\ putLog = <<>>

\* C34: no two steps of a superstep write the same field, the steps that
\* return the whole state included, and a field returned by a step that is
\* not its writer has the value the state holds, so that merging it puts no
\* older value back.
C34_NoConflictingWrites ==
    /\ raisedBy # "apply_writes"
    /\ \A a, b \in DOMAIN ran :
          a # b => Written(a) \cap Written(b) = {}
    /\ \A n \in DOMAIN ran : \A f \in Written(n) :
          DeclaredWriter(f) # n =>
              /\ Has(state, f)
              /\ ran[n].update[f] = state[f]

\* allowance_check has returned the whole state in the superstep in which
\* compare_dates and select_daily_rate write their fields
C34_Witness ==
    /\ {"allowance_check", "compare_dates", "select_daily_rate"}
           \subseteq DOMAIN ran
    /\ Has(ran["allowance_check"].update, "header_extraction")
    /\ Has(ran["compare_dates"].update, "date_comparsion")
    /\ Has(ran["select_daily_rate"].update, "rate_selection")

\* C35: when compare_time_periods_with_llm returns periods_match = true,
\* trip_days is the inclusive length of the header period and of the summary
\* period; trip_days is None only when both period strings are invalid.
C35_MatchImpliesTripDays ==
    Returned("compare_time_periods_with_llm") =>
        /\ Val(ret).value.periods_match =>
              /\ ValidPeriod(call.header_time_period)
              /\ ValidPeriod(call.summary_time_period)
              /\ Val(ret).value.trip_days
                     = Some(DaysOf(call.header_time_period))
              /\ Val(ret).value.trip_days
                     = Some(DaysOf(call.summary_time_period))
        /\ IsNone(Val(ret).value.trip_days) =>
              /\ ~ValidPeriod(call.header_time_period)
              /\ ~ValidPeriod(call.summary_time_period)

\* two equal periods of more than one day have been compared
C35_Witness ==
    /\ Returned("compare_time_periods_with_llm")
    /\ Val(ret).value.periods_match
    /\ ~IsNone(Val(ret).value.trip_days)
    /\ Val(Val(ret).value.trip_days) > 1

\* C36: compare_time_periods_with_llm gives the same periods_match and the
\* same trip_days when its two arguments are exchanged.
C36_CompareSymmetric ==
    Returned("compare_time_periods_with_llm") =>
        LET swapped == compare_time_periods_with_llm(
                           call.summary_time_period, call.header_time_period)
        IN  /\ Val(ret).value.periods_match = swapped.periods_match
            /\ Val(ret).value.trip_days = swapped.trip_days

\* a valid header period longer than the valid summary period has been
\* compared
C36_Witness ==
    /\ Returned("compare_time_periods_with_llm")
    /\ ValidPeriod(call.header_time_period)
    /\ ValidPeriod(call.summary_time_period)
    /\ DaysOf(call.header_time_period) > DaysOf(call.summary_time_period)
    /\ Val(ret).value.trip_days = Some(DaysOf(call.header_time_period))

\* the command line does not hold exactly one argument, or the path it
\* names does not exist
BadCommandLine == Len(call.argv) # 1 \/ call.argv[1] \notin Files

\* C31: started without exactly one argument or with a path that does not
\* exist, the program does no extraction, no LLM call and no backend call,
\* no graph node is executed, and when it has ended it has printed an error
\* and its exit status is not zero.
C31_BadPathExitsBeforeWork ==
    BadCommandLine =>
        /\ ret.effects = {}
        /\ \A n \in Nodes : execCount[n] = 0
        /\ ret.pc \in {"__main__", "main", "exit"}
        /\ ret.pc = "exit" =>
              /\ ~IsNone(ret.exit_status)
              /\ Val(ret.exit_status) # 0
              /\ ret.printed # {}

\* the program has ended on a path that does not exist
C31_Witness ==
    /\ ~IsNone(call)
    /\ call.argv = <<"missing.pdf">>
    /\ ret.pc = "exit"
    /\ ret.exit_status = Some(1)
    /\ ret.effects = {}

====
